---- MODULE Spec2Model ----
(***************************************************************************)
(* Verification model of the two MCP servers of dotfiles-mcp:              *)
(*   src/slack-mcp/server.py              (Slack server)                   *)
(*   src/dotfiles-mcp/athena-mcp/server.py (Athena server)                 *)
(* Strings the code inspects character by character (channel references,   *)
(* the allowlist setting) are sequences of one-character strings.          *)
(***************************************************************************)
EXTENDS Integers, Sequences, FiniteSets, TLC

VARIABLES env, slack, call, twin_slack, twin_call, policy, frame, athena

vars == <<env, slack, call, twin_slack, twin_call, policy, frame, athena>>

(***************************************************************************)
(* Character strings                                                       *)
(***************************************************************************)
Min(a, b) == IF a <= b THEN a ELSE b
Max(a, b) == IF a >= b THEN a ELSE b

EmptyStr == <<>>
Zeros7 == <<"0", "0", "0", "0", "0", "0", "0">>
\* channel ids in the shape Slack issues them (a prefix letter and 8 digits)
ID_C1 == <<"C">> \o Zeros7 \o <<"1">>
ID_C2 == <<"C">> \o Zeros7 \o <<"2">>
ID_C3 == <<"G">> \o Zeros7 \o <<"3">>
ID_C4 == <<"C">> \o Zeros7 \o <<"4">>
\* starts with C but is one character short of the id shape
ShortRef == <<"C">> \o Zeros7
general == <<"g", "e", "n">>
random == <<"r", "n", "d">>
absent == <<"z", "z">>
Hash(s) == <<"#">> \o s

\* str.startswith(("C", "G", "D"))
startswith(s, prefixes) == Len(s) >= 1 /\ s[1] \in prefixes

\* str.lstrip(chars): drops every leading character that is in chars
RECURSIVE lstrip(_, _)
lstrip(s, chars) ==
    IF Len(s) >= 1 /\ s[1] \in chars THEN lstrip(Tail(s), chars) ELSE s

RECURSIVE rstrip(_, _)
rstrip(s, chars) ==
    IF Len(s) >= 1 /\ s[Len(s)] \in chars
    THEN rstrip(SubSeq(s, 1, Len(s) - 1), chars) ELSE s

Whitespace == {" "}
\* str.strip()
strip(s) == rstrip(lstrip(s, Whitespace), Whitespace)

\* str.split(","): the pieces between the separators, empty pieces kept
RECURSIVE split(_, _)
split(s, sep) ==
    IF \E i \in 1..Len(s) : s[i] = sep
    THEN LET i == CHOOSE k \in 1..Len(s) :
                      s[k] = sep /\ \A j \in 1..(k - 1) : s[j] # sep
         IN <<SubSeq(s, 1, i - 1)>> \o split(SubSeq(s, i + 1, Len(s)), sep)
    ELSE <<s>>

Range(f) == {f[i] : i \in DOMAIN f}

(***************************************************************************)
(* Slack server: configuration and access policy                           *)
(***************************************************************************)
\* get_allowed_channels(): the parsed SLACK_CHANNEL_ALLOWLIST
get_allowed_channels(raw) ==
    IF raw = EmptyStr THEN {}
    ELSE {strip(ch) : ch \in {p \in Range(split(raw, ",")) : strip(p) # EmptyStr}}

is_channel_allowed_IdOnly(raw, channel_id, channel_name) ==
    LET allowed == get_allowed_channels(raw)
    IN IF allowed = {} THEN TRUE ELSE channel_id \in allowed

\* is_channel_allowed(channel_id, channel_name)
is_channel_allowed(raw, channel_id, channel_name) ==
    LET allowed == get_allowed_channels(raw)
    IN IF allowed = {} THEN TRUE
       ELSE channel_id \in allowed \/ channel_name \in allowed

\* values of SLACK_CHANNEL_ALLOWLIST
AllowlistSettings ==
    { EmptyStr,
      general,
      <<" ">> \o general \o <<" ", ",", ",">> \o ID_C2,
      ID_C3 }


(***************************************************************************)
(* Slack upstream (the team-messaging API behind WebClient)                *)
(***************************************************************************)
MaxPages == 3
MaxPageLen == 2
MaxHistory == 2

chGeneral == [id |-> ID_C1, name |-> general, is_private |-> FALSE, is_member |-> TRUE]
chRandom == [id |-> ID_C2, name |-> random, is_private |-> TRUE, is_member |-> FALSE]
\* a second channel that carries the display name of chGeneral
chGeneral2 == [id |-> ID_C3, name |-> general, is_private |-> FALSE, is_member |-> TRUE]
Channels == {chGeneral, chRandom, chGeneral2}

RECURSIVE Flatten(_)
Flatten(pages) == IF pages = <<>> THEN <<>> ELSE Head(pages) \o Flatten(Tail(pages))

NoRepeat(seq) == \A i, j \in DOMAIN seq : i # j => seq[i].id # seq[j].id

SeqsUpTo(S, n) == UNION {[1..k -> S] : k \in 0..n}

\* the listings of n pages of at most MaxPageLen channels, no channel listed twice
RECURSIVE ListingsOfLen(_)
ListingsOfLen(n) ==
    IF n = 0 THEN {<<>>}
    ELSE {pages \in {Append(before, page) : before \in ListingsOfLen(n - 1),
                                            page \in SeqsUpTo(Channels, MaxPageLen)} :
             NoRepeat(Flatten(pages))}

\* the listings upstream can hold: 1..MaxPages pages
Listings == UNION {ListingsOfLen(n) : n \in 1..MaxPages}

\* a workspace with more channels than the ceiling of list-channels: 1200 public
\* channels C90000001.., named ch0001.., in 24 pages of 50 (upstream may return
\* fewer than the limit=200 it is asked for)
LONG_PAGE == 50
LONG_PAGES == 24
Digits == <<"0", "1", "2", "3", "4", "5", "6", "7", "8", "9">>
Digit(n) == Digits[(n % 10) + 1]
Decimal4(i) == <<Digit(i \div 1000), Digit(i \div 100), Digit(i \div 10), Digit(i)>>
chNumbered(i) == [id |-> <<"C", "9", "0", "0", "0">> \o Decimal4(i),
                  name |-> <<"c", "h">> \o Decimal4(i),
                  is_private |-> FALSE, is_member |-> FALSE]
LongListing ==
    [k \in 1..LONG_PAGES |-> [j \in 1..LONG_PAGE |-> chNumbered((k - 1) * LONG_PAGE + j)]]

Existing(w) == Range(Flatten(w.pages))

NoCursor == 0

TypeMatches(ch, types) == ch.is_private => "private_channel" \in types

\* WebClient.conversations_list(types, limit=200, cursor, exclude_archived)
conversations_list(w, types, cursor) ==
    LET k == IF cursor = NoCursor THEN 1 ELSE cursor
    IN [channels |-> SelectSeq(w.pages[k], LAMBDA ch : TypeMatches(ch, types)),
        next_cursor |-> IF k < Len(w.pages) THEN k + 1 ELSE NoCursor]

channel_not_found == [exc |-> "SlackApiError", error |-> "channel_not_found", needed |-> ""]
missing_scope == [exc |-> "SlackApiError", error |-> "missing_scope", needed |-> "channels:read"]
URLError == [exc |-> "URLError"]
\* failures of an upstream call that do not depend on the listing
Faults == {missing_scope, URLError}
NoFaults == {}

IsSlackApiError(e) == e.exc = "SlackApiError"

\* WebClient.conversations_info(channel): the channel, or channel_not_found
conversations_info(w, channel_id) ==
    IF \E ch \in Existing(w) : ch.id = channel_id
    THEN [ok |-> TRUE, channel |-> CHOOSE ch \in Existing(w) : ch.id = channel_id]
    ELSE [ok |-> FALSE, error |-> channel_not_found]

\* messages of a history page, newest first; ts is <<seconds, fraction>>
Senders == {"U1", "U2"}
MessageKinds ==
    {[user |-> u] : u \in Senders}
      \cup {[bot_id |-> "B1", username |-> "deploybot"]}

Stamp(kinds) == [i \in DOMAIN kinds |->
                    [k \in DOMAIN kinds[i] \cup {"ts", "text"} |->
                        IF k = "ts" THEN <<Len(kinds) - i + 1, 5>>
                        ELSE IF k = "text" THEN "hello"
                        ELSE kinds[i][k]]]

Histories == {Stamp(kinds) : kinds \in SeqsUpTo(MessageKinds, MaxHistory)}

\* WebClient.users_info(user)["user"]
UserRecords == {[real_name |-> "Real Name", name |-> "handle"], [id |-> "U"]}

(***************************************************************************)
(* Slack server: one tool call                                             *)
(* A call is a record; every step maps it to the set of records the step   *)
(* can produce, given the upstream state w and the failures F that may hit *)
(* an upstream call.                                                       *)
(***************************************************************************)
MAX_MESSAGES == 100
LIST_CEILING == 1000
DEFAULT_LIST_LIMIT == 100
DEFAULT_READ_LIMIT == 20

ChannelTools == {"slack_read_messages", "slack_send_message", "slack_delete_message"}

SlackCatalog ==
    {"slack_list_channels", "slack_read_messages", "slack_send_message", "slack_delete_message"}

NoArgs == [k \in {} |-> 0]
EmptyCache == [k \in {} |-> ""]

IdleCall ==
    [pc |-> "idle", name |-> "", arguments |-> NoArgs, handler |-> "",
     channel |-> EmptyStr, channel_id |-> EmptyStr, channel_info |-> NoArgs,
     gate |-> <<>>, cursor |-> NoCursor, calls |-> <<>>, response |-> <<>>,
     raised |-> <<>>,
     limit |-> 0, channels |-> <<>>, messages |-> <<>>, pending |-> <<>>,
     user_cache |-> EmptyCache, output |-> <<>>]

\* dict.get(key, default)
get(d, key, default) == IF key \in DOMAIN d THEN d[key] ELSE default

KeyError(key) == [exc |-> "KeyError", key |-> key]
TokenRequired == [exc |-> "ValueError", msg |-> "SLACK_BOT_TOKEN environment variable is required"]
ChannelNotFound(channel) == [exc |-> "ValueError", msg |-> "not found", channel |-> channel]

Responded(c) == Len(c.response) = 1
Return(c, text) == [c EXCEPT !.pc = "done", !.response = Append(c.response, text)]

\* an exception that no except clause of call_tool takes leaves call_tool
Escapes(c, e) == [c EXCEPT !.pc = "escaped", !.raised = <<e>>]
Caught(c, e, text) == Return([c EXCEPT !.raised = <<e>>], text)

call_tool_except_SlackOnly(c, e) ==
    IF IsSlackApiError(e)
    THEN Caught(c, e, [text |-> "Slack API error", error |-> e.error,
                       missing_scope |-> e.needed])
    ELSE Escapes(c, e)

\* call_tool: "except SlackApiError" and "except Exception" around the handlers
call_tool_except(c, e) ==
    IF IsSlackApiError(e)
    THEN Caught(c, e, [text |-> "Slack API error", error |-> e.error,
                       missing_scope |-> e.needed])
    ELSE Caught(c, e, [text |-> "Error executing", name |-> c.name, detail |-> e])

Logged(c, entry) == [c EXCEPT !.calls = Append(c.calls, entry)]

\* get_slack_client(): raises when the token is not configured
get_slack_client_raises == ~env.SLACK_BOT_TOKEN

\* the argument reads and client construction that open each handler
handle_enter(c, required, next) ==
    LET missing == {k \in Range(required) : k \notin DOMAIN c.arguments}
        first == CHOOSE i \in DOMAIN required :
                    /\ required[i] \in missing
                    /\ \A j \in 1..(i - 1) : required[j] \notin missing
        h == [c EXCEPT !.handler = c.name]
    IN IF missing # {} THEN call_tool_except(h, KeyError(required[first]))
       ELSE IF get_slack_client_raises THEN call_tool_except(h, TokenRequired)
       ELSE [h EXCEPT !.pc = next,
                      !.channel = get(c.arguments, "channel", EmptyStr)]

list_limit(arguments) == Min(get(arguments, "limit", DEFAULT_LIST_LIMIT), LIST_CEILING)
read_limit(arguments) == Min(get(arguments, "limit", DEFAULT_READ_LIMIT), MAX_MESSAGES)

call_tool_Fallthrough(name, arguments) ==
    LET c == [IdleCall EXCEPT !.name = name, !.arguments = arguments]
        listing == LET h == handle_enter(c, <<>>, "list")
                   IN IF Responded(h) THEN h ELSE [h EXCEPT !.limit = list_limit(arguments)]
    IN CASE name = "slack_read_messages" ->
              LET h == handle_enter(c, <<"channel">>, "resolve")
              IN IF Responded(h) THEN h ELSE [h EXCEPT !.limit = read_limit(arguments)]
         [] name = "slack_send_message" ->
              handle_enter(c, <<"channel", "message">>, "resolve")
         [] name = "slack_delete_message" ->
              handle_enter(c, <<"channel", "ts">>, "resolve")
         [] OTHER -> listing

\* call_tool(name, arguments): routing, up to the handler's first upstream call
call_tool(name, arguments) ==
    LET c == [IdleCall EXCEPT !.name = name, !.arguments = arguments]
    IN CASE name = "slack_list_channels" ->
              LET h == handle_enter(c, <<>>, "list")
              IN IF Responded(h) THEN h
                 ELSE [h EXCEPT !.limit = list_limit(arguments)]
         [] name = "slack_read_messages" ->
              LET h == handle_enter(c, <<"channel">>, "resolve")
              IN IF Responded(h) THEN h
                 ELSE [h EXCEPT !.limit = read_limit(arguments)]
         [] name = "slack_send_message" ->
              handle_enter(c, <<"channel", "message">>, "resolve")
         [] name = "slack_delete_message" ->
              handle_enter(c, <<"channel", "ts">>, "resolve")
         [] OTHER -> Return(c, [text |-> "Unknown tool", name |-> name])

looks_like_id_COnly(channel) == startswith(channel, {"C"}) /\ Len(channel) >= 9

\* resolve_channel_id: "looks like an ID"
looks_like_id(channel) == startswith(channel, {"C", "G", "D"}) /\ Len(channel) >= 9

\* resolve_channel_id, entry: an id-shaped reference is returned as it is
resolve_channel_id(c) ==
    IF looks_like_id(c.channel)
    THEN [c EXCEPT !.channel_id = c.channel, !.pc = "info"]
    ELSE [c EXCEPT !.cursor = NoCursor, !.pc = "search"]

FirstMatch(chs, channel_name) ==
    LET hits == {i \in DOMAIN chs : chs[i].name = channel_name}
    IN IF hits = {} THEN 0 ELSE CHOOSE i \in hits : \A j \in hits : i <= j

search_page_NoAdvance(c, w, F) ==
    LET channel_name == lstrip(c.channel, {"#"})
        entry == [api |-> "conversations_list", cursor |-> c.cursor]
        result == conversations_list(w, {"public_channel", "private_channel"}, c.cursor)
        hit == FirstMatch(result.channels, channel_name)
        l == Logged(c, entry @@ [ok |-> TRUE])
    IN {call_tool_except(Logged(c, entry @@ [ok |-> FALSE]), f) : f \in F}
       \cup {IF hit # 0
             THEN [l EXCEPT !.channel_id = result.channels[hit].id, !.pc = "info"]
             ELSE call_tool_except(l, ChannelNotFound(c.channel))}

\* resolve_channel_id, one turn of the while loop: one listing call
search_page(c, w, F) ==
    LET channel_name == lstrip(c.channel, {"#"})
        entry == [api |-> "conversations_list", cursor |-> c.cursor]
        result == conversations_list(w, {"public_channel", "private_channel"}, c.cursor)
        hit == FirstMatch(result.channels, channel_name)
        l == Logged(c, entry @@ [ok |-> TRUE])
    IN {call_tool_except(Logged(c, entry @@ [ok |-> FALSE]), f) : f \in F}
       \cup {IF hit # 0
             THEN [l EXCEPT !.channel_id = result.channels[hit].id, !.pc = "info"]
             ELSE IF result.next_cursor = NoCursor
             THEN call_tool_except(l, ChannelNotFound(c.channel))
             ELSE [l EXCEPT !.cursor = result.next_cursor]}

\* the handler's step after the allowlist check
AfterGate(c) ==
    CASE c.handler = "slack_read_messages" -> "history"
      [] c.handler = "slack_send_message" -> "post"
      [] c.handler = "slack_delete_message" -> "delete"

check_allowlist_DeleteUnchecked(c) ==
    LET name == get(c.channel_info, "name", EmptyStr)
        allowed == is_channel_allowed(env.SLACK_CHANNEL_ALLOWLIST, c.channel_id, name)
        g == [c EXCEPT !.gate = <<[id |-> c.channel_id, name |-> name, allowed |-> allowed]>>]
    IN IF c.handler = "slack_delete_message" THEN [c EXCEPT !.pc = AfterGate(c)]
       ELSE IF ~allowed
       THEN Return(g, [text |-> "not in the allowed channels list", channel |-> c.channel])
       ELSE [g EXCEPT !.pc = AfterGate(c)]

\* "# Check allowlist" of handle_read_messages, handle_send_message and
\* handle_delete_message, on the channel_info that get_channel_info returned
check_allowlist(c) ==
    LET name == get(c.channel_info, "name", EmptyStr)
        allowed == is_channel_allowed(env.SLACK_CHANNEL_ALLOWLIST, c.channel_id, name)
        g == [c EXCEPT !.gate = <<[id |-> c.channel_id, name |-> name, allowed |-> allowed]>>]
    IN IF ~allowed
       THEN Return(g, [text |-> "not in the allowed channels list", channel |-> c.channel])
       ELSE [g EXCEPT !.pc = AfterGate(c)]

Got(c, info) == [c EXCEPT !.channel_info = info]

\* get_channel_info followed by the allowlist check
get_channel_info(c, w, F) ==
    LET entry == [api |-> "conversations_info", channel |-> c.channel_id]
        result == conversations_info(w, c.channel_id)
        fallback == [id |-> c.channel_id]
    IN {IF IsSlackApiError(f)
        THEN check_allowlist(Got(Logged(c, entry @@ [ok |-> FALSE]), fallback))
        ELSE call_tool_except(Logged(c, entry @@ [ok |-> FALSE]), f) : f \in F}
       \cup {IF result.ok
             THEN check_allowlist(Got(Logged(c, entry @@ [ok |-> TRUE]), result.channel))
             ELSE check_allowlist(Got(Logged(c, entry @@ [ok |-> FALSE]), fallback))}

\* channel_info.get('name', channel)
DisplayName(c) == get(c.channel_info, "name", c.channel)

\* the outcomes of a call that acts on a channel: the injected failures, or
\* what the listing decides (channel_not_found for an id upstream does not know)
ChannelCall(c, w, F, entry, done) ==
    {call_tool_except(Logged(c, entry @@ [ok |-> FALSE]), f) : f \in F}
    \cup {IF \E ch \in Existing(w) : ch.id = c.channel_id
          THEN done
          ELSE call_tool_except(Logged(c, entry @@ [ok |-> FALSE]), channel_not_found)}

\* handle_send_message from "# Send message" on
handle_send_message(c, w, F) ==
    LET thread_ts == get(c.arguments, "thread_ts", "")
        entry == [api |-> "chat_postMessage", channel |-> c.channel_id,
                  text |-> c.arguments["message"], thread_ts |-> thread_ts]
    IN ChannelCall(c, w, F, entry,
          Return(Logged(c, entry @@ [ok |-> TRUE]),
                 [text |-> "Message sent successfully", channel |-> DisplayName(c),
                  thread |-> thread_ts, message |-> c.arguments["message"]]))

\* handle_delete_message from "# Delete message" on
handle_delete_message(c, w, F) ==
    LET entry == [api |-> "chat_delete", channel |-> c.channel_id, ts |-> c.arguments["ts"]]
    IN ChannelCall(c, w, F, entry,
          Return(Logged(c, entry @@ [ok |-> TRUE]),
                 [text |-> "Message deleted successfully", channel |-> DisplayName(c),
                  ts |-> c.arguments["ts"]]))

\* reversed(messages)
RECURSIVE reversed(_)
reversed(seq) == IF seq = <<>> THEN <<>> ELSE Append(reversed(Tail(seq)), Head(seq))

conversations_history_Unreversed(c, w, F) ==
    LET entry == [api |-> "conversations_history", channel |-> c.channel_id, limit |-> c.limit]
        l == Logged(c, entry @@ [ok |-> TRUE])
    IN {call_tool_except(Logged(c, entry @@ [ok |-> FALSE]), f) : f \in F}
       \cup (IF \E ch \in Existing(w) : ch.id = c.channel_id
             THEN {IF messages = <<>>
                   THEN Return(l, [text |-> "No messages found", channel |-> DisplayName(c)])
                   ELSE [l EXCEPT !.messages = messages,
                                  !.user_cache = EmptyCache,
                                  !.pending = messages,
                                  !.pc = "render"] :
                      messages \in {h \in Histories : Len(h) <= c.limit}}
             ELSE {call_tool_except(Logged(c, entry @@ [ok |-> FALSE]), channel_not_found)})

\* handle_read_messages from "# Get messages" to the start of the loop
conversations_history(c, w, F) ==
    LET entry == [api |-> "conversations_history", channel |-> c.channel_id, limit |-> c.limit]
        l == Logged(c, entry @@ [ok |-> TRUE])
    IN {call_tool_except(Logged(c, entry @@ [ok |-> FALSE]), f) : f \in F}
       \cup (IF \E ch \in Existing(w) : ch.id = c.channel_id
             THEN {IF messages = <<>>
                   THEN Return(l, [text |-> "No messages found", channel |-> DisplayName(c)])
                   ELSE [l EXCEPT !.messages = messages,
                                  !.user_cache = EmptyCache,
                                  !.pending = reversed(messages),
                                  !.pc = "render"] :
                      messages \in {h \in Histories : Len(h) <= c.limit}}
             ELSE {call_tool_except(Logged(c, entry @@ [ok |-> FALSE]), channel_not_found)})

\* format_timestamp(ts): the whole seconds, printed as a date
format_timestamp(ts) == <<"date", ts[1]>>

\* user_info["user"].get("real_name", user_info["user"].get("name", user_id))
display_name(user, user_id) == get(user, "real_name", get(user, "name", user_id))

\* one line of the report, given the cache after the lookup
render_line(msg, user_id, cache) ==
    [username |-> IF get(msg, "bot_id", "") # "" THEN get(msg, "username", "Bot")
                  ELSE get(cache, user_id, user_id),
     timestamp |-> format_timestamp(get(msg, "ts", <<0, 0>>)),
     ts |-> get(msg, "ts", <<0, 0>>),
     text |-> get(msg, "text", "(no text)")]

Rendered(c, msg, user_id, cache) ==
    LET r == [c EXCEPT !.user_cache = cache,
                       !.pending = Tail(c.pending),
                       !.output = Append(c.output, render_line(msg, user_id, cache))]
    IN IF Tail(c.pending) # <<>> THEN r
       ELSE Return(r, [text |-> "Messages from", channel |-> DisplayName(c),
                       count |-> Len(c.messages), lines |-> r.output])

render_message_NoCacheOnFailure(c, w, F) ==
    LET msg == Head(c.pending)
        user_id == get(msg, "user", "Unknown")
        entry == [api |-> "users_info", user |-> user_id]
    IN IF user_id \in DOMAIN c.user_cache \/ user_id = "Unknown"
       THEN {Rendered(c, msg, user_id, c.user_cache)}
       ELSE {IF IsSlackApiError(f)
             THEN Rendered(Logged(c, entry @@ [ok |-> FALSE]), msg, user_id, c.user_cache)
             ELSE call_tool_except(Logged(c, entry @@ [ok |-> FALSE]), f) : f \in F}
            \cup {Rendered(Logged(c, entry @@ [ok |-> TRUE, user_info |-> user]), msg, user_id,
                           c.user_cache @@ (user_id :> display_name(user, user_id))) :
                     user \in UserRecords}

\* handle_read_messages, one turn of the loop over reversed(messages)
render_message(c, w, F) ==
    LET msg == Head(c.pending)
        user_id == get(msg, "user", "Unknown")
        entry == [api |-> "users_info", user |-> user_id]
    IN IF user_id \in DOMAIN c.user_cache \/ user_id = "Unknown"
       THEN {Rendered(c, msg, user_id, c.user_cache)}
       ELSE {IF IsSlackApiError(f)
             THEN Rendered(Logged(c, entry @@ [ok |-> FALSE]), msg, user_id,
                           c.user_cache @@ (user_id :> user_id))
             ELSE call_tool_except(Logged(c, entry @@ [ok |-> FALSE]), f) : f \in F}
            \cup {Rendered(Logged(c, entry @@ [ok |-> TRUE, user_info |-> user]), msg, user_id,
                           c.user_cache @@ (user_id :> display_name(user, user_id))) :
                     user \in UserRecords}

RECURSIVE scan_page_Unfiltered(_, _, _)
scan_page_Unfiltered(page, channels, limit) ==
    IF page = <<>> THEN channels
    ELSE LET appended == Append(channels, Head(page))
         IN IF Len(appended) >= limit THEN appended
            ELSE scan_page_Unfiltered(Tail(page), appended, limit)

\* handle_list_channels, the for loop over one page of the listing
RECURSIVE scan_page(_, _, _)
scan_page(page, channels, limit) ==
    IF page = <<>> THEN channels
    ELSE LET channel == Head(page)
             allowed == get_allowed_channels(env.SLACK_CHANNEL_ALLOWLIST)
         IN IF allowed # {}
               /\ ~is_channel_allowed(env.SLACK_CHANNEL_ALLOWLIST, channel.id, channel.name)
            THEN scan_page(Tail(page), channels, limit)
            ELSE LET appended == Append(channels, channel)
                 IN IF Len(appended) >= limit THEN appended
                    ELSE scan_page(Tail(page), appended, limit)

\* handle_list_channels, one turn of the while loop and, once it breaks, the report
handle_list_channels(c, w, F) ==
    LET include_private == get(c.arguments, "include_private", FALSE)
        types == {"public_channel"} \cup (IF include_private THEN {"private_channel"} ELSE {})
        entry == [api |-> "conversations_list", cursor |-> c.cursor]
        result == conversations_list(w, types, c.cursor)
        l == Logged(c, entry @@ [ok |-> TRUE])
        channels == scan_page(result.channels, c.channels, c.limit)
        n == [l EXCEPT !.channels = channels, !.cursor = result.next_cursor]
    IN {call_tool_except(Logged(c, entry @@ [ok |-> FALSE]), f) : f \in F}
       \cup {IF result.next_cursor # NoCursor /\ ~(Len(channels) >= c.limit)
             THEN n
             ELSE IF channels = <<>>
             THEN Return(n, [text |-> "No accessible channels found"])
             ELSE Return(n, [text |-> "Accessible Slack Channels", rows |-> channels,
                             filtered_by |-> get_allowed_channels(env.SLACK_CHANNEL_ALLOWLIST)])}

(***************************************************************************)
(* Athena server                                                           *)
(***************************************************************************)
MaxRows == 3
DEFAULT_MAX_ROWS == 100
SAMPLE_MAX_ROWS == 100

RowValues == {"a", "b"}
LongFrame(n) == [i \in 1..n |-> IF i % 2 = 1 THEN "a" ELSE "b"]
\* the query results: every short frame, and the 50 and 150 row frames
Frames == SeqsUpTo(RowValues, MaxRows) \cup {LongFrame(50), LongFrame(150)}
Caps == (-2..(MaxRows + 1)) \cup {100}

\* DataFrame.head(n): the first n rows; for a negative n, all but the last -n rows
head(df, n) ==
    IF n >= 0 THEN SubSeq(df, 1, Min(n, Len(df)))
    ELSE SubSeq(df, 1, Max(Len(df) + n, 0))

\* DataFrame.to_markdown(index=False): a header line and one line per row
to_markdown(df) == [header |-> "columns", rows |-> df]

\* dataframe_to_markdown(df, max_rows); df is rebound to its head before the
\* footer is written
dataframe_to_markdown(df, max_rows) ==
    LET truncated == Len(df) > max_rows
        shown == IF truncated THEN head(df, max_rows) ELSE df
    IN [table |-> to_markdown(shown),
        footer |-> IF truncated
                   THEN <<[text |-> "Results truncated", showing |-> max_rows,
                           of |-> Len(shown)]>>
                   ELSE <<>>]

AthenaCatalog ==
    {"athena_query", "athena_list_databases", "athena_list_tables",
     "athena_describe_table", "athena_sample_query"}

IdleAthena ==
    [pc |-> "idle", name |-> "", arguments |-> NoArgs, handler |-> "",
     calls |-> <<>>, response |-> <<>>, raised |-> <<>>]

ProfileNotFound == [exc |-> "ProfileNotFound"]
QueryFailed == [exc |-> "QueryFailed"]
AthenaFaults == {QueryFailed}

\* call_tool of the Athena server: "except Exception"
athena_call_tool_except(c, e) ==
    Caught(c, e, [text |-> "Error executing", name |-> c.name, detail |-> e])

\* the arguments each Athena handler reads with arguments[...]
athena_reads(name) ==
    CASE name = "athena_query" -> <<"query">>
      [] name = "athena_describe_table" -> <<"table">>
      [] name = "athena_sample_query" -> <<"start_timestamp", "end_timestamp">>
      [] OTHER -> <<>>

\* call_tool of the Athena server: routing, the handler's argument reads and
\* get_boto3_session(), up to the external call
athena_call_tool(name, arguments, session_ok) ==
    LET c == [IdleAthena EXCEPT !.name = name, !.arguments = arguments]
        h == [c EXCEPT !.handler = name]
        required == athena_reads(name)
        missing == {k \in Range(required) : k \notin DOMAIN arguments}
        first == CHOOSE i \in DOMAIN required :
                    /\ required[i] \in missing
                    /\ \A j \in 1..(i - 1) : required[j] \notin missing
    IN IF name \notin AthenaCatalog
       THEN Return(c, [text |-> "Unknown tool", name |-> name])
       ELSE IF missing # {} THEN athena_call_tool_except(h, KeyError(required[first]))
       ELSE IF ~session_ok THEN athena_call_tool_except(h, ProfileNotFound)
       ELSE [h EXCEPT !.pc = "external"]

\* the external call of each Athena handler and the report built from its result
athena_external(c) ==
    LET a == c.arguments
        api == CASE c.handler \in {"athena_query", "athena_sample_query"} -> "athena.read_sql_query"
                 [] c.handler = "athena_list_databases" -> "catalog.databases"
                 [] c.handler = "athena_list_tables" -> "catalog.tables"
                 [] c.handler = "athena_describe_table" -> "catalog.table"
        entry == [api |-> api]
        l == Logged(c, entry @@ [ok |-> TRUE])
    IN {athena_call_tool_except(Logged(c, entry @@ [ok |-> FALSE]), f) : f \in AthenaFaults}
       \cup
       CASE c.handler = "athena_query" ->
              {Return(l, [text |-> "Query Results", rows |-> Len(df),
                          body |-> dataframe_to_markdown(df, get(a, "max_rows", DEFAULT_MAX_ROWS))]) :
                  df \in Frames}
         [] c.handler = "athena_sample_query" ->
              {Return(l, [text |-> "Bid Pricer Log Sample", rows |-> Len(df),
                          from |-> a["start_timestamp"], to |-> a["end_timestamp"],
                          country |-> get(a, "country", ""), app |-> get(a, "app", ""),
                          body |-> dataframe_to_markdown(df, SAMPLE_MAX_ROWS)]) :
                  df \in Frames}
         [] c.handler = "athena_list_databases" ->
              {Return(l, [text |-> "Available Databases", items |-> dbs]) :
                  dbs \in {<<>>, <<"adn_lakehouse_silver">>}}
         [] c.handler = "athena_list_tables" ->
              {Return(l, [text |-> "Tables in", database |-> get(a, "database", "default"),
                          items |-> tables]) :
                  tables \in {<<>>, <<"bid_pricer_log">>}}
         [] c.handler = "athena_describe_table" ->
              {Return(l, [text |-> "Schema for", database |-> get(a, "database", "default"),
                          table |-> a["table"], columns |-> columns]) :
                  columns \in {<<>>, <<"bid_id">>}}

AthenaArgumentsOf(name) ==
    CASE name = "athena_query" ->
            {NoArgs, [query |-> "SELECT 1"], [max_rows |-> 1]}
              \cup {[query |-> "SELECT 1", max_rows |-> n] : n \in Caps}
      [] name = "athena_describe_table" ->
            {NoArgs, [table |-> "bid_pricer_log"], [database |-> "db"]}
      [] name = "athena_sample_query" ->
            {NoArgs, [start_timestamp |-> "t0"], [end_timestamp |-> "t1"],
             [start_timestamp |-> "t0", end_timestamp |-> "t1"],
             [start_timestamp |-> "t0", end_timestamp |-> "t1", country |-> "FR"]}
      [] OTHER -> {NoArgs, [database |-> "db"]}

(***************************************************************************)
(* Slack server: the requests a caller can make, and the state machine     *)
(***************************************************************************)
Refs == {general, Hash(general), random, absent, ID_C1, ID_C3, ID_C4, ShortRef}
ReadRefs == {Hash(general), absent, ID_C1, ID_C4}
ReadLimits == {1}
ListLimits == {-1, 0, 1, 2, 1001}
UnknownTools == {"slack_archive_channel", "athena_query"}

WithChannel(rest) == {rest @@ [channel |-> r] : r \in Refs}

ArgumentsOf(name) ==
    CASE name = "slack_list_channels" ->
            {NoArgs, [include_private |-> TRUE]}
              \cup {[limit |-> n] : n \in ListLimits}
              \cup {[limit |-> n, include_private |-> TRUE] : n \in ListLimits}
      [] name = "slack_read_messages" ->
            {NoArgs} \cup {[channel |-> r] : r \in ReadRefs}
              \cup {[channel |-> Hash(general), limit |-> n] : n \in ReadLimits}
      [] name = "slack_send_message" ->
            {NoArgs, [message |-> "hi"]} \cup WithChannel(NoArgs)
              \cup WithChannel([message |-> "hi"])
              \cup {[channel |-> general, message |-> "hi", thread_ts |-> "1.5"]}
      [] name = "slack_delete_message" ->
            {NoArgs, [ts |-> "1.5"]} \cup WithChannel(NoArgs)
              \cup WithChannel([ts |-> "1.5"])
      [] OTHER -> {NoArgs, [channel |-> general, message |-> "hi", ts |-> "1.5"]}

Environments ==
    [server : {"slack"}, SLACK_BOT_TOKEN : {TRUE}, SLACK_CHANNEL_ALLOWLIST : AllowlistSettings]
      \cup [server : {"slack"}, SLACK_BOT_TOKEN : {FALSE}, SLACK_CHANNEL_ALLOWLIST : {general}]
AthenaEnvironment ==
    [server |-> "athena", SLACK_BOT_TOKEN |-> FALSE, SLACK_CHANNEL_ALLOWLIST |-> EmptyStr]
NoListing == [pages |-> <<<<>>>>]

IdlePolicy ==
    [pc |-> "idle", entries |-> <<>>, channel_id |-> EmptyStr, channel_name |-> EmptyStr,
     result |-> FALSE]
IdleFrame == [pc |-> "idle", df |-> <<>>, max_rows |-> 0, result |-> <<>>]

\* a behaviour is the life of one server process: the Slack server with its
\* configuration and upstream workspace, or the Athena server; the workspace of
\* 1200 channels is explored with no allowlist, where all of them are listed
InitSlack ==
    /\ env \in Environments
    /\ slack \in [pages : Listings \cup (IF env.SLACK_CHANNEL_ALLOWLIST = EmptyStr
                                         THEN {LongListing} ELSE {})]
InitAthena ==
    /\ env = AthenaEnvironment
    /\ slack = NoListing

Init ==
    /\ InitSlack \/ InitAthena
    /\ call = IdleCall
    /\ twin_slack = slack
    /\ twin_call = IdleCall
    /\ policy = IdlePolicy
    /\ frame = IdleFrame
    /\ athena = IdleAthena

Others == <<env, slack, twin_slack, twin_call, policy, frame, athena>>

CallTool ==
    /\ env.server = "slack"
    /\ call.pc = "idle"
    /\ \E name \in SlackCatalog \cup UnknownTools :
         \E arguments \in ArgumentsOf(name) : call' = call_tool(name, arguments)
    /\ UNCHANGED Others

ResolveChannelId ==
    /\ call.pc = "resolve"
    /\ call' = resolve_channel_id(call)
    /\ UNCHANGED Others

SearchPage ==
    /\ call.pc = "search"
    /\ call' \in search_page(call, slack, Faults)
    /\ UNCHANGED Others

GetChannelInfo ==
    /\ call.pc = "info"
    /\ call' \in get_channel_info(call, slack, Faults)
    /\ UNCHANGED Others

SendMessage ==
    /\ call.pc = "post"
    /\ call' \in handle_send_message(call, slack, Faults)
    /\ UNCHANGED Others

DeleteMessage ==
    /\ call.pc = "delete"
    /\ call' \in handle_delete_message(call, slack, Faults)
    /\ UNCHANGED Others

ConversationsHistory ==
    /\ call.pc = "history"
    /\ call' \in conversations_history(call, slack, Faults)
    /\ UNCHANGED Others

RenderMessage ==
    /\ call.pc = "render"
    /\ call' \in render_message(call, slack, Faults)
    /\ UNCHANGED Others

ListChannels ==
    /\ call.pc = "list"
    /\ call' \in handle_list_channels(call, slack, Faults)
    /\ UNCHANGED Others

\* the response has been handed to the transport; the server takes the next call
Finish ==
    /\ call.pc \in {"done", "escaped"}
    /\ call' = IdleCall
    /\ UNCHANGED Others

AthenaOthers == <<env, slack, call, twin_slack, twin_call, policy, frame>>

AthenaCallTool ==
    /\ env.server = "athena"
    /\ athena.pc = "idle"
    /\ \E name \in AthenaCatalog \cup UnknownTools :
         \E arguments \in AthenaArgumentsOf(name), session_ok \in BOOLEAN :
            athena' = athena_call_tool(name, arguments, session_ok)
    /\ UNCHANGED AthenaOthers

AthenaExternal ==
    /\ athena.pc = "external"
    /\ athena' \in athena_external(athena)
    /\ UNCHANGED AthenaOthers

AthenaFinish ==
    /\ athena.pc \in {"done", "escaped"}
    /\ athena' = IdleAthena
    /\ UNCHANGED AthenaOthers

Next ==
    \/ CallTool
    \/ ResolveChannelId
    \/ SearchPage
    \/ GetChannelInfo
    \/ SendMessage
    \/ DeleteMessage
    \/ ConversationsHistory
    \/ RenderMessage
    \/ ListChannels
    \/ Finish
    \/ AthenaCallTool
    \/ AthenaExternal
    \/ AthenaFinish

Spec == Init /\ [][Next]_vars

(***************************************************************************)
(* The access policy on its own: is_channel_allowed over every setting     *)
(***************************************************************************)
MaxEntries == 2
PolicyEntries == {general, random, ID_C1, EmptyStr}
PolicyIds == {ID_C1, ID_C2, general}
PolicyNames == {general, random, EmptyStr}
Paddings == {EmptyStr, <<" ">>}

\* the text an operator writes for the entries: comma separated, optionally padded
RECURSIVE Join(_, _)
Join(entries, pad) ==
    IF entries = <<>> THEN EmptyStr
    ELSE IF Len(entries) = 1 THEN pad \o entries[1] \o pad
    ELSE pad \o entries[1] \o pad \o <<",">> \o Join(Tail(entries), pad)

InitPolicy ==
    /\ \E entries \in SeqsUpTo(PolicyEntries, MaxEntries), pad \in Paddings :
         /\ env = [server |-> "slack", SLACK_BOT_TOKEN |-> TRUE,
                   SLACK_CHANNEL_ALLOWLIST |-> Join(entries, pad)]
         /\ \E id \in PolicyIds, name \in PolicyNames :
              policy = [pc |-> "ready", entries |-> entries, channel_id |-> id,
                        channel_name |-> name, result |-> FALSE]
    /\ slack = NoListing
    /\ call = IdleCall
    /\ twin_slack = slack
    /\ twin_call = IdleCall
    /\ frame = IdleFrame
    /\ athena = IdleAthena

IsChannelAllowed ==
    /\ policy.pc = "ready"
    /\ policy' = [policy EXCEPT
                    !.pc = "done",
                    !.result = is_channel_allowed(env.SLACK_CHANNEL_ALLOWLIST,
                                                  policy.channel_id, policy.channel_name)]
    /\ UNCHANGED <<env, slack, call, twin_slack, twin_call, frame, athena>>

NextPolicy == IsChannelAllowed

SpecPolicy == InitPolicy /\ [][NextPolicy]_vars

(***************************************************************************)
(* The formatter on its own: dataframe_to_markdown over frames and caps    *)
(***************************************************************************)
InitFrame ==
    /\ \E df \in Frames, max_rows \in Caps :
         frame = [pc |-> "ready", df |-> df, max_rows |-> max_rows, result |-> <<>>]
    /\ env = AthenaEnvironment
    /\ slack = NoListing
    /\ call = IdleCall
    /\ twin_slack = slack
    /\ twin_call = IdleCall
    /\ policy = IdlePolicy
    /\ athena = IdleAthena

DataframeToMarkdown ==
    /\ frame.pc = "ready"
    /\ frame' = [frame EXCEPT
                   !.pc = "done",
                   !.result = <<dataframe_to_markdown(frame.df, frame.max_rows)>>]
    /\ UNCHANGED <<env, slack, call, twin_slack, twin_call, policy, athena>>

NextFrame == DataframeToMarkdown

SpecFrame == InitFrame /\ [][NextFrame]_vars

(***************************************************************************)
(* Two workspaces that differ in one channel, given the same call          *)
(***************************************************************************)
\* the next step of a call that is under way, whichever handler it is in
step(c, w, F) ==
    CASE c.pc = "resolve" -> {resolve_channel_id(c)}
      [] c.pc = "search" -> search_page(c, w, F)
      [] c.pc = "info" -> get_channel_info(c, w, F)
      [] c.pc = "post" -> handle_send_message(c, w, F)
      [] c.pc = "delete" -> handle_delete_message(c, w, F)
      [] c.pc = "history" -> conversations_history(c, w, F)
      [] c.pc = "render" -> render_message(c, w, F)
      [] c.pc = "list" -> handle_list_channels(c, w, F)
      [] OTHER -> {}

\* the workspace w with the channel ch gone and nothing else changed
Without(w, ch) ==
    [pages |-> [k \in DOMAIN w.pages |-> SelectSeq(w.pages[k], LAMBDA x : x # ch)]]

\* the channel that exists in slack only
Removed == CHOOSE ch \in Existing(slack) : ch \notin Existing(twin_slack)

InitTwin ==
    /\ env \in {e \in Environments :
                  e.SLACK_BOT_TOKEN /\ get_allowed_channels(e.SLACK_CHANNEL_ALLOWLIST) # {}}
    /\ slack \in [pages : Listings]
    /\ \E ch \in Existing(slack) :
         /\ ch.id \notin get_allowed_channels(env.SLACK_CHANNEL_ALLOWLIST)
         /\ ch.name \notin get_allowed_channels(env.SLACK_CHANNEL_ALLOWLIST)
         /\ \A other \in Existing(slack) : other.name = ch.name => other = ch
         /\ twin_slack = Without(slack, ch)
    /\ call = IdleCall
    /\ twin_call = IdleCall
    /\ policy = IdlePolicy
    /\ frame = IdleFrame
    /\ athena = IdleAthena

\* the same send, read or delete request, naming the channel, goes to both
TwinCallTool ==
    /\ call.pc = "idle" /\ twin_call.pc = "idle"
    /\ \E name \in ChannelTools, ref \in {Removed.id, Removed.name, Hash(Removed.name)} :
         LET arguments == [channel |-> ref, message |-> "hi", ts |-> "1.5"]
         IN /\ call' = call_tool(name, arguments)
            /\ twin_call' = call_tool(name, arguments)
    /\ UNCHANGED <<env, slack, twin_slack, policy, frame, athena>>

TwinStep ==
    /\ call' \in step(call, slack, NoFaults)
    /\ UNCHANGED <<env, slack, twin_slack, twin_call, policy, frame, athena>>

TwinStepOther ==
    /\ twin_call' \in step(twin_call, twin_slack, NoFaults)
    /\ UNCHANGED <<env, slack, call, twin_slack, policy, frame, athena>>

NextTwin == TwinCallTool \/ TwinStep \/ TwinStepOther

SpecTwin == InitTwin /\ [][NextTwin]_vars

(***************************************************************************)
(* Two read-messages calls in flight at once on the same workspace.  The   *)
(* handlers give up control at their upstream calls at the earliest, so a  *)
(* step of one call between any two upstream calls of the other is the     *)
(* finest interleaving the transport can produce.                          *)
(***************************************************************************)
ReadEnvironment ==
    [server |-> "slack", SLACK_BOT_TOKEN |-> TRUE, SLACK_CHANNEL_ALLOWLIST |-> EmptyStr]
ReadWorkspace == [pages |-> <<<<chGeneral>>>>]
ReadArguments == {[channel |-> ID_C1], [channel |-> ID_C1, limit |-> 1]}

InitRead ==
    /\ env = ReadEnvironment
    /\ slack = ReadWorkspace
    /\ twin_slack = slack
    /\ call = IdleCall
    /\ twin_call = IdleCall
    /\ policy = IdlePolicy
    /\ frame = IdleFrame
    /\ athena = IdleAthena

ReadOthers == <<env, slack, twin_slack, policy, frame, athena>>

ReadCallTool ==
    /\ call.pc = "idle"
    /\ \E arguments \in ReadArguments : call' = call_tool("slack_read_messages", arguments)
    /\ UNCHANGED <<twin_call, ReadOthers>>

ReadCallToolOther ==
    /\ twin_call.pc = "idle"
    /\ \E arguments \in ReadArguments :
          twin_call' = call_tool("slack_read_messages", arguments)
    /\ UNCHANGED <<call, ReadOthers>>

ReadStep ==
    /\ call' \in step(call, slack, Faults)
    /\ UNCHANGED <<twin_call, ReadOthers>>

ReadStepOther ==
    /\ twin_call' \in step(twin_call, slack, Faults)
    /\ UNCHANGED <<call, ReadOthers>>

ReadFinish ==
    /\ call.pc = "done"
    /\ call' = IdleCall
    /\ UNCHANGED <<twin_call, ReadOthers>>

ReadFinishOther ==
    /\ twin_call.pc = "done"
    /\ twin_call' = IdleCall
    /\ UNCHANGED <<call, ReadOthers>>

NextRead ==
    \/ ReadCallTool
    \/ ReadCallToolOther
    \/ ReadStep
    \/ ReadStepOther
    \/ ReadFinish
    \/ ReadFinishOther

SpecRead == InitRead /\ [][NextRead]_vars

(***************************************************************************)
(* The tool catalogs: the "required" lists of the input schemas            *)
(***************************************************************************)
\* list_tools() of the Slack server
slack_required(name) ==
    CASE name = "slack_read_messages" -> {"channel"}
      [] name = "slack_send_message" -> {"channel", "message"}
      [] name = "slack_delete_message" -> {"channel", "ts"}
      [] OTHER -> {}

\* list_tools() of the Athena server
athena_required(name) ==
    CASE name = "athena_query" -> {"query"}
      [] name = "athena_describe_table" -> {"table"}
      [] name = "athena_sample_query" -> {"start_timestamp", "end_timestamp"}
      [] OTHER -> {}

(***************************************************************************)
(* Properties                                                              *)
(***************************************************************************)
\* the allowlist the operator configured: the entries that are not blank
ConfiguredAllowlist == {e \in Range(policy.entries) : e # EmptyStr}

\* C3: is_channel_allowed(id, name) is true exactly when the configured
\* allowlist is empty, or contains id, or contains name.
C3_AllowedIffEmptyOrIdOrName ==
    policy.pc = "done" =>
        policy.result = (\/ ConfiguredAllowlist = {}
                         \/ policy.channel_id \in ConfiguredAllowlist
                         \/ policy.channel_name \in ConfiguredAllowlist)

\* C3 witness: a non-empty allowlist lets a channel pass on its name alone
C3_PassesByNameOnly ==
    /\ policy.pc = "done"
    /\ ConfiguredAllowlist # {}
    /\ policy.channel_id \notin ConfiguredAllowlist
    /\ policy.channel_name \in ConfiguredAllowlist
    /\ policy.result

FrameResult == frame.result[1]

\* C4: when the frame has more rows than the cap, the truncation footer
\* states the cap as the number shown and the original row count as the total.
C4_FooterStatesShownOfTotal ==
    (frame.pc = "done" /\ frame.max_rows >= 0 /\ Len(frame.df) > frame.max_rows) =>
        /\ Len(FrameResult.footer) = 1
        /\ FrameResult.footer[1].showing = frame.max_rows
        /\ FrameResult.footer[1].of = Len(frame.df)

\* C5: for every frame and every cap the formatter renders exactly the first
\* min(N, cap) rows in their order, and the footer is present iff N > cap.
C5_PrefixCutAndFooterIffTruncated ==
    frame.pc = "done" =>
        /\ FrameResult.table.rows =
              SubSeq(frame.df, 1, Min(Len(frame.df), frame.max_rows))
        /\ (Len(FrameResult.footer) = 1) <=> (Len(frame.df) > frame.max_rows)

EffectApis == {"chat_postMessage", "conversations_history", "chat_delete"}
Issued(c, apis) == {i \in DOMAIN c.calls : c.calls[i].api \in apis}
Allowlist == get_allowed_channels(env.SLACK_CHANNEL_ALLOWLIST)
\* get_channel_info has returned: the channel record, or its {"id": ...} fallback
InfoReturned(c) == "id" \in DOMAIN c.channel_info
UpstreamName(c) == IF "name" \in DOMAIN c.channel_info THEN c.channel_info.name ELSE EmptyStr
AccessDenied(c) == [text |-> "not in the allowed channels list", channel |-> c.channel]

\* C1: with a non-empty allowlist, a send/read/delete call whose resolved id
\* and upstream name are both outside the allowlist answers access-denied and
\* issues no post, history or delete call; and whenever one of those calls is
\* issued, the allowlist check was evaluated on the resolved channel and passed.
C1_DeniedBeforeAnyEffect ==
    call.handler \in ChannelTools =>
       /\ (/\ Allowlist # {}
           /\ InfoReturned(call)
           /\ call.channel_id \notin Allowlist
           /\ UpstreamName(call) \notin Allowlist)
          => (/\ call.pc = "done"
              /\ call.response = <<AccessDenied(call)>>
              /\ Issued(call, EffectApis) = {})
       /\ Issued(call, EffectApis) # {}
          => (/\ InfoReturned(call)
              /\ call.gate = <<[id |-> call.channel_id, name |-> UpstreamName(call),
                                allowed |-> TRUE]>>
              /\ Allowlist # {} =>
                    (call.channel_id \in Allowlist \/ UpstreamName(call) \in Allowlist)
              /\ \E i \in Issued(call, {"conversations_info"}) :
                    /\ call.calls[i].channel = call.channel_id
                    /\ \A j \in Issued(call, EffectApis) : i < j)

\* C1 witness: a send to a channel outside a non-empty allowlist was denied
C1_SendDenied ==
    /\ call.handler = "slack_send_message"
    /\ Allowlist # {}
    /\ InfoReturned(call)
    /\ call.channel_id \notin Allowlist
    /\ UpstreamName(call) \notin Allowlist
    /\ call.response = <<AccessDenied(call)>>

\* C2: the allowlist check is given the canonical id of an upstream channel and
\* the name upstream currently reports for it, so a reference that is neither
\* the id nor the current name of an allowlisted channel never passes the check.
C2_GateSeesCanonicalIdAndCurrentName ==
    (/\ call.handler \in ChannelTools
     /\ Allowlist # {}
     /\ Len(call.gate) = 1
     /\ call.gate[1].allowed)
    => \E ch \in Existing(slack) :
          /\ ch.id = call.gate[1].id
          /\ ch.name = call.gate[1].name
          /\ ch.id \in Allowlist \/ ch.name \in Allowlist
          /\ lstrip(call.channel, {"#"}) \in {ch.id, ch.name}

AllTypes == {"public_channel", "private_channel"}
\* the cursor of the i-th fetch of the chain: none, then what the page before returned
RECURSIVE NthCursor(_)
NthCursor(i) ==
    IF i = 1 THEN NoCursor
    ELSE conversations_list(slack, AllTypes, NthCursor(i - 1)).next_cursor
IsListFetch(entry, i) ==
    entry = [api |-> "conversations_list", cursor |-> NthCursor(i), ok |-> TRUE]
IdShaped(s) == Len(s) >= 9 /\ s[1] \in {"C", "G", "D"}
Target(c) == lstrip(c.channel, {"#"})
Listed == Flatten(slack.pages)
Hits(c) == {i \in DOMAIN Listed : Listed[i].name = Target(c)}
\* the page that holds the i-th listed channel
PageOf(i) ==
    CHOOSE k \in DOMAIN slack.pages :
       /\ Len(Flatten(SubSeq(slack.pages, 1, k))) >= i
       /\ Len(Flatten(SubSeq(slack.pages, 1, k - 1))) < i
RaisedNotFound(c) == c.raised = <<[exc |-> "ValueError", msg |-> "not found", channel |-> c.channel]>>

\* C7: resolve_channel_id raises NotFound only after fetching every page of the
\* cursor chain, each with the cursor the page before returned; and a name that
\* is resolved is resolved to the first match in listing order, with no page
\* fetched after the page of that match.
C7_SearchFollowsTheCursorChain ==
    call.handler \in ChannelTools =>
       /\ RaisedNotFound(call) =>
             /\ Len(call.calls) = Len(slack.pages)
             /\ \A i \in DOMAIN call.calls : IsListFetch(call.calls[i], i)
             /\ Hits(call) = {}
       /\ (~IdShaped(call.channel) /\ call.channel_id # EmptyStr) =>
             /\ Hits(call) # {}
             /\ LET first == CHOOSE i \in Hits(call) : \A j \in Hits(call) : i <= j
                    lists == Issued(call, {"conversations_list"})
                IN /\ call.channel_id = Listed[first].id
                   /\ lists = 1..PageOf(first)
                   /\ \A i \in lists : IsListFetch(call.calls[i], i)

\* C7 witness: NotFound after a chain of three pages
C7_NotFoundAfterThreePages ==
    /\ RaisedNotFound(call)
    /\ Len(slack.pages) = 3
    /\ Len(call.calls) = 3

\* C8: an id-shaped reference costs no listing call and is returned unchanged.
C8_IdShapedIsReturnedUnchanged ==
    (/\ call.handler \in ChannelTools
     /\ IdShaped(call.channel)
     /\ call.pc \notin {"idle", "resolve"})
    => /\ call.channel_id = call.channel
       /\ Issued(call, {"conversations_list"}) = {}
       /\ call.pc # "search"

\* C8 witness: a G-prefixed id has been resolved with an empty call log
C8_GroupIdResolved ==
    /\ call.handler \in ChannelTools
    /\ call.channel = ID_C3
    /\ call.pc = "info"
    /\ call.channel_id = ID_C3
    /\ call.calls = <<>>

UnknownTool(name) == [text |-> "Unknown tool", name |-> name]
IsErrorText(c) == Len(c.response) = 1 /\ c.response[1].text = "Error executing"
Omits(c, required) == ~(required \subseteq DOMAIN c.arguments)

\* the request of c never got past the dispatcher and the handler's opening lines
Rejected(c, catalog, required) ==
    /\ c.name \notin catalog =>
          /\ c.pc = "done"
          /\ c.response = <<UnknownTool(c.name)>>
          /\ c.handler = ""
          /\ c.calls = <<>>
    /\ (c.name \in catalog /\ Omits(c, required)) =>
          /\ c.pc = "done"
          /\ IsErrorText(c)
          /\ c.calls = <<>>

\* C9: a tool name outside the catalog gets the unknown-tool answer and no
\* handler; a catalog tool called without a required parameter fails with an
\* error answer before any external call, on both servers.
C9_InvalidRequestReachesNothing ==
    /\ call.pc # "idle" => Rejected(call, SlackCatalog, slack_required(call.name))
    /\ athena.pc # "idle" => Rejected(athena, AthenaCatalog, athena_required(athena.name))

\* C9 witness: delete-message without ts, with the token configured, was refused
C9_DeleteWithoutTsRefused ==
    /\ env.SLACK_BOT_TOKEN
    /\ call.name = "slack_delete_message"
    /\ DOMAIN call.arguments = {"channel"}
    /\ IsErrorText(call)
    /\ call.calls = <<>>

NamesTool(text, name) == "name" \in DOMAIN text /\ text.name = name
NamesError(text, e) ==
    \/ "detail" \in DOMAIN text /\ text.detail = e
    \/ IsSlackApiError(e) /\ "error" \in DOMAIN text /\ text.error = e.error

\* C10 as stated: every error that reaches call_tool comes back as exactly one
\* text that names the tool and the error, and nothing escapes call_tool.
C10_ErrorTextNamesToolAndError ==
    \A c \in {call, athena} :
       /\ c.pc # "escaped"
       /\ Len(c.raised) = 1 =>
             /\ Len(c.response) = 1
             /\ NamesTool(c.response[1], c.name)
             /\ NamesError(c.response[1], c.raised[1])

\* C10 amended: every error that reaches call_tool comes back as exactly one
\* text that names the error, and nothing escapes call_tool; the text names the
\* tool as well unless the error is a SlackApiError, whose text is "Slack API
\* error: <error>" with the missing scope and without the tool name.
C10_ErrorCaughtAsOneText ==
    \A c \in {call, athena} :
       /\ c.pc # "escaped"
       /\ Len(c.raised) = 1 =>
             /\ Len(c.response) = 1
             /\ c.pc = "done"
             /\ NamesError(c.response[1], c.raised[1])
             /\ NamesTool(c.response[1], c.name) <=> ~IsSlackApiError(c.raised[1])
             /\ IsSlackApiError(c.raised[1]) =>
                   c.response[1] = [text |-> "Slack API error",
                                    error |-> c.raised[1].error,
                                    missing_scope |-> c.raised[1].needed]

\* C10 witness: a non-Slack failure of an upstream call was reported under the tool name
C10_UpstreamFailureReported ==
    /\ call.raised = <<URLError>>
    /\ call.calls # <<>>
    /\ call.response = <<[text |-> "Error executing", name |-> call.name, detail |-> URLError]>>

\* C6: with a non-empty allowlist, two workspaces that differ only in whether a
\* channel outside the allowlist exists answer a send/read/delete call naming
\* that channel (by name or by id) with the same response.
C6_DenialIndependentOfExistence ==
    (call.pc = "done" /\ twin_call.pc = "done") => call.response = twin_call.response

\* C11: in send-message, read-messages and delete-message an upstream call that
\* fails is the last upstream call of the handler, and the response reports
\* that failure.
C11_FailureSurfacesImmediately ==
    call.handler \in ChannelTools =>
       \A i \in DOMAIN call.calls :
          ~call.calls[i].ok =>
             /\ i = Len(call.calls)
             /\ call.pc = "done"
             /\ Len(call.raised) = 1
             /\ Len(call.response) = 1
             /\ NamesError(call.response[1], call.raised[1])

\* the types list-channels asks for
ListTypes(c) ==
    {"public_channel"}
      \cup (IF get(c.arguments, "include_private", FALSE) THEN {"private_channel"} ELSE {})
IsVisible(ch) == TypeMatches(ch, ListTypes(call))
\* the Access Policy on a listed channel, under the configured allowlist
PassesPolicy(ch) == Allowlist = {} \/ ch.id \in Allowlist \/ ch.name \in Allowlist
\* the channels of the whole cursor chain that list-channels can see, and those
\* of them that pass the policy, in listing order
Visible == SelectSeq(Listed, IsVisible)
Passing == SelectSeq(Visible, PassesPolicy)
IsPrefix(s, t) == Len(s) <= Len(t) /\ s = SubSeq(t, 1, Len(s))
ListAnswered(c) == c.handler = "slack_list_channels" /\ c.pc = "done" /\ c.raised = <<>>
ListRows(c) == IF "rows" \in DOMAIN c.response[1] THEN c.response[1].rows ELSE <<>>

\* C12: with a non-empty allowlist every row list-channels outputs has its id
\* or its name in the allowlist; a channel failing the policy is left out and
\* the answer is never an access-denied report; and the rows are the leading
\* policy-passing channels of the listing, so with an empty allowlist the policy
\* leaves no channel out (only the limit does).
C12_ListShowsOnlyAllowedChannels ==
    /\ call.handler = "slack_list_channels" =>
          \A i \in DOMAIN call.channels :
             Allowlist # {} =>
                (call.channels[i].id \in Allowlist \/ call.channels[i].name \in Allowlist)
    /\ ListAnswered(call) =>
          /\ call.response[1].text \in {"Accessible Slack Channels",
                                        "No accessible channels found"}
          /\ call.response[1].text = "No accessible channels found" <=> call.channels = <<>>
          /\ ListRows(call) = call.channels
          /\ IsPrefix(ListRows(call), Passing)
          /\ Len(ListRows(call)) < Len(Passing) => Len(ListRows(call)) >= call.limit

\* C12 witness: allowlist {general} over general/C1 and random/C2, private
\* channels included: the answer has general's row only
C12_OnlyGeneralListed ==
    /\ ListAnswered(call)
    /\ Allowlist = {general}
    /\ Range(Listed) = {chGeneral, chRandom}
    /\ DOMAIN call.arguments = {"include_private"}
    /\ Visible = Listed
    /\ ListRows(call) = <<chGeneral>>

Requested(c) == get(c.arguments, "limit", DEFAULT_LIST_LIMIT)
\* min(A, min(limit, 1000)), none when that is not positive
ExpectedCount(c) == Max(0, Min(Len(Passing), Min(Requested(c), LIST_CEILING)))

\* C13: for every caller limit the number of channels list-channels returns is
\* min(A, min(limit, 1000)), A the number of policy-passing channels over the
\* whole cursor chain, and the channels returned are the first such channels in
\* listing order.
C13_ListCountIsMinOfPassingAndLimit ==
    ListAnswered(call) =>
       /\ Len(ListRows(call)) = ExpectedCount(call)
       /\ ListRows(call) = SubSeq(Passing, 1, ExpectedCount(call))

\* the users_info calls a call has made for the user u
Lookups(c, u) ==
    {i \in DOMAIN c.calls : c.calls[i].api = "users_info" /\ c.calls[i].user = u}
\* the name the call's own lookup of u gave: real_name, else name, else the id;
\* the id when the lookup failed
ResolvedName(c, u) ==
    LET e == c.calls[CHOOSE i \in Lookups(c, u) : TRUE]
    IN IF ~e.ok THEN u
       ELSE IF "real_name" \in DOMAIN e.user_info THEN e.user_info.real_name
       ELSE IF "name" \in DOMAIN e.user_info THEN e.user_info.name
       ELSE u
SenderLabel(c, msg) ==
    IF "bot_id" \in DOMAIN msg
    THEN (IF "username" \in DOMAIN msg THEN msg.username ELSE "Bot")
    ELSE IF "user" \notin DOMAIN msg THEN "Unknown"
    ELSE ResolvedName(c, msg.user)
\* the k-th line of the report is the k-th oldest message of the fetch
ChronologicalLine(c, k) ==
    LET msg == c.messages[Len(c.messages) - k + 1]
    IN /\ ("user" \in DOMAIN msg /\ "bot_id" \notin DOMAIN msg) => Lookups(c, msg.user) # {}
       /\ c.output[k] = [username |-> SenderLabel(c, msg),
                         timestamp |-> <<"date", msg.ts[1]>>,
                         ts |-> msg.ts,
                         text |-> msg.text]
ReadAnswered(c) ==
    c.handler = "slack_read_messages" /\ c.pc = "done" /\ c.raised = <<>> /\ c.messages # <<>>

\* C14: read-messages fetches the history once and its report lists exactly the
\* fetched messages, each once, in the reverse of the order upstream returned
\* them, each under the name the sender resolved to.
C14_RenderedInChronologicalOrder ==
    call.handler = "slack_read_messages" =>
       /\ Cardinality(Issued(call, {"conversations_history"})) <= 1
       /\ Len(call.output) <= Len(call.messages)
       /\ \A k \in DOMAIN call.output : ChronologicalLine(call, k)
       /\ ReadAnswered(call) =>
             /\ Len(call.output) = Len(call.messages)
             /\ call.response = <<[text |-> "Messages from", channel |-> DisplayName(call),
                                   count |-> Len(call.messages), lines |-> call.output]>>

\* C14 witness: "#gen" resolved through the listing; upstream returned U1's
\* message (newest) then U2's, and the report has U2's line before U1's
C14_TwoMessagesReordered ==
    /\ ReadAnswered(call)
    /\ call.channel = Hash(general)
    /\ Len(call.messages) = 2
    /\ call.messages[1].ts[1] > call.messages[2].ts[1]
    /\ "user" \in DOMAIN call.messages[1] /\ call.messages[1].user = "U1"
    /\ "user" \in DOMAIN call.messages[2] /\ call.messages[2].user = "U2"
    /\ call.output[1].ts = call.messages[2].ts
    /\ call.output[2].ts = call.messages[1].ts
    /\ call.output[1].username = "Real Name"

SenderIds(c) ==
    {c.messages[i].user : i \in {j \in DOMAIN c.messages : "user" \in DOMAIN c.messages[j]}}
Concurrent == {call, twin_call}

\* C15: in each of two interleaved read-messages calls, users_info is called at
\* most once per sender id of the fetched messages, a failed lookup included,
\* and only for sender ids; the cache is empty when the loop starts and holds
\* nothing but what the call's own lookups returned.
C15_LookupOncePerSender ==
    \A c \in Concurrent :
       c.handler = "slack_read_messages" =>
          /\ \A i \in Issued(c, {"users_info"}) :
                c.calls[i].user \in SenderIds(c) /\ c.calls[i].user # "Unknown"
          /\ \A u \in SenderIds(c) : Cardinality(Lookups(c, u)) <= 1
          /\ (c.pc = "render" /\ c.output = <<>>) => c.user_cache = EmptyCache
          /\ \A u \in DOMAIN c.user_cache :
                Lookups(c, u) # {} /\ c.user_cache[u] = ResolvedName(c, u)

\* C15 witness: both calls are under way; one has rendered two messages of U1
\* after a single failed lookup, the other has looked U1 up itself and got a name
C15_OneFailedLookupForTwoMessages ==
    /\ call.handler = "slack_read_messages" /\ twin_call.handler = "slack_read_messages"
    /\ Len(call.output) = 2
    /\ SenderIds(call) = {"U1"}
    /\ Cardinality(Lookups(call, "U1")) = 1
    /\ \A i \in Lookups(call, "U1") : ~call.calls[i].ok
    /\ call.user_cache = ("U1" :> "U1")
    /\ twin_call.pc = "render"
    /\ twin_call.user_cache = ("U1" :> "Real Name")
====
